---------------------------- MODULE Spec2Model ----------------------------
(***************************************************************************)
(* The three-stage Rational Speech Acts pipeline of intro-to-rsa:          *)
(* meaning, normalize_rows, literal_listener, pragmatic_speaker and        *)
(* pragmatic_listener over the module-scope lists objects and utterances.  *)
(*                                                                         *)
(* Numbers.  The notebooks compute with float64.  The model computes with  *)
(* the exact non-negative rationals those floats approximate, extended by  *)
(* the two IEEE values a division by zero produces (nan = 0/0 and          *)
(* inf = x/0).  Rounding (relative error 2^-53 per operation) and          *)
(* underflow are not modelled.  A rational is a fraction num/den whose     *)
(* numerator and denominator are fixed-point numbers written in base       *)
(* 10^9 (epsilon = 10^-9 is the digit sequence <<0, 1>>): the sequence     *)
(* <<c0, c1, ..., cn>> is c0 + c1*10^-9 + ... + cn*10^-9n.  Digits are     *)
(* signed and carries are delayed while the digits are small; a product    *)
(* whose digit products would leave the 32-bit integers of TLC is computed *)
(* on carried digits split into base-1000 limbs (TLC reports an overflow   *)
(* instead of wrapping).                                                   *)
(***************************************************************************)
EXTENDS Integers, Sequences, FiniteSets, TLC

\* ------------------------------------------------------------- bounds
\* Largest number of registered objects in a world model.
MaxObjects == 3
\* Largest speaker optimality alpha (alpha ranges over 1..MaxAlpha).
MaxAlpha == 3

\* ------------------------------------------------- fixed-point digits
\* 1 / epsilon of pragmatic_speaker: the base of the digit sequences.
PosBase == 1000000000

Abs(x) == IF x < 0 THEN -x ELSE x
Max2(x, y) == IF x < y THEN y ELSE x
Min2(x, y) == IF x < y THEN x ELSE y

RECURSIVE Gcd(_, _)
Gcd(x, y) == IF y = 0 THEN x ELSE Gcd(y, x % y)

\* A numpy array or Python list of n elements, built element by element.
RECURSIVE ArrayFrom(_, _, _)
ArrayFrom(F(_), i, n) == IF i > n THEN <<>> ELSE <<F(i)>> \o ArrayFrom(F, i + 1, n)
Array(F(_), n) == ArrayFrom(F, 1, n)

Digit(p, i) == IF i <= Len(p) THEN p[i] ELSE 0

\* Drop the zero digits at the least significant end; zero is <<0>>.
RECURSIVE LastDigit(_, _)
LastDigit(p, i) == IF i > 1 /\ p[i] = 0 THEN LastDigit(p, i - 1) ELSE i
PTrim(p) == SubSeq(p, 1, LastDigit(p, Len(p)))

RECURSIVE MaxAbsFrom(_, _)
MaxAbsFrom(p, i) == IF i > Len(p) THEN 0 ELSE Max2(Abs(p[i]), MaxAbsFrom(p, i + 1))
MaxAbs(p) == MaxAbsFrom(p, 1)

\* Propagate the delayed carries from the least significant digit upward:
\* afterwards every digit but the first lies in 0..base-1.
RECURSIVE Carry(_, _, _)
Carry(p, i, base) ==
  IF i <= 1 THEN p
  ELSE Carry([p EXCEPT ![i] = p[i] % base,
                       ![i - 1] = p[i - 1] + (p[i] \div base)], i - 1, base)
PCarry(p) == Carry(p, Len(p), PosBase)

\* Digits stay below PosBase in magnitude: a sum that leaves the range is
\* carried.
PSettle(p) == IF MaxAbs(p) < PosBase THEN p ELSE PCarry(p)

PAdd(p, q) ==
  PSettle(PTrim(Array(LAMBDA i : Digit(p, i) + Digit(q, i), Max2(Len(p), Len(q)))))
PSub(p, q) == PTrim(Array(LAMBDA i : Digit(p, i) - Digit(q, i), Max2(Len(p), Len(q))))

RECURSIVE ConvSum(_, _, _, _)
ConvSum(p, q, k, i) ==
  IF i > Len(p) \/ i > k THEN 0
  ELSE (IF k + 1 - i <= Len(q) THEN p[i] * q[k + 1 - i] ELSE 0)
       + ConvSum(p, q, k, i + 1)

Convolve(p, q) == Array(LAMBDA k : ConvSum(p, q, k, 1), Len(p) + Len(q) - 1)

\* The digit products and their sums fit below PosBase.
FitsProduct(p, q) ==
  LET a == MaxAbs(p)
      b == MaxAbs(q)
  IN a = 0 \/ b = 0 \/ a <= (PosBase \div Min2(Len(p), Len(q))) \div b

\* Each carried base-10^9 digit as three base-1000 limbs.
ToLimbs(p) ==
  Array(LAMBDA k : LET d == p[(k + 2) \div 3]
                   IN CASE (k + 2) % 3 = 0 -> d \div 1000000
                        [] (k + 2) % 3 = 1 -> (d \div 1000) % 1000
                        [] OTHER -> d % 1000,
        3 * Len(p))

\* The convolution of two limb sequences starts two limbs above the
\* integer limbs: fold those two into the first limb.
FoldLimbs(c) ==
  Array(LAMBDA m : IF m = 1 THEN c[3] + 1000 * c[2] + 1000000 * c[1] ELSE c[m + 2],
        Len(c) - 2)

FromLimbs(c) ==
  Array(LAMBDA i : 1000000 * c[3 * i - 2] + 1000 * c[3 * i - 1] + c[3 * i],
        Len(c) \div 3)

CarryLimbs(c) == Carry(c, Len(c), 1000)

\* Product of digit sequences too large for digit-by-digit products.
PMulLimbs(p, q) ==
  PTrim(FromLimbs(CarryLimbs(FoldLimbs(Convolve(ToLimbs(PCarry(p)), ToLimbs(PCarry(q)))))))

PMul(p, q) ==
  IF Len(q) = 1 /\ q[1] = 1 THEN p
  ELSE IF Len(p) = 1 /\ p[1] = 1 THEN q
  ELSE IF FitsProduct(p, q) THEN PTrim(Convolve(p, q))
  ELSE PMulLimbs(p, q)

RECURSIVE PPow(_, _)
PPow(p, n) == IF n = 0 THEN <<1>> ELSE PMul(p, PPow(p, n - 1))

\* -1, 0 or 1: the sign of the number p denotes.
PSign(p) ==
  LET c == PCarry(p)
  IN IF Head(c) < 0 THEN -1
     ELSE IF \E i \in 1..Len(c) : c[i] # 0 THEN 1 ELSE 0

RECURSIVE GcdSeq(_, _)
GcdSeq(p, i) == IF i > Len(p) THEN 0 ELSE Gcd(Abs(p[i]), GcdSeq(p, i + 1))

PDivInt(p, g) == Array(LAMBDA i : p[i] \div g, Len(p))

\* ---------------------------------------------------- float64 values
Zero == [num |-> <<0>>, den |-> <<1>>]
One == [num |-> <<1>>, den |-> <<1>>]
NaN == [num |-> <<0>>, den |-> <<0>>]
Inf == [num |-> <<1>>, den |-> <<0>>]

IsNaN(x) == x = NaN
IsInf(x) == x = Inf
IsFinite(x) == ~IsNaN(x) /\ ~IsInf(x)
IsZero(x) == IsFinite(x) /\ PSign(x.num) = 0

\* Cancel the common integer factor of all digits of num and den.
Reduce(n, d) ==
  LET g == Gcd(GcdSeq(n, 1), GcdSeq(d, 1))
  IN IF g <= 1 THEN [num |-> n, den |-> d]
     ELSE [num |-> PDivInt(n, g), den |-> PDivInt(d, g)]

\* x + y of float64 (operands are never negative here).
FAdd(x, y) ==
  IF IsNaN(x) \/ IsNaN(y) THEN NaN
  ELSE IF IsInf(x) \/ IsInf(y) THEN Inf
  ELSE IF x.den = y.den THEN Reduce(PAdd(x.num, y.num), x.den)
  ELSE Reduce(PAdd(PMul(x.num, y.den), PMul(y.num, x.den)), PMul(x.den, y.den))

\* x / y of numpy: 0/0 is nan, x/0 is inf, and nan propagates.
FDiv(x, y) ==
  IF IsNaN(x) \/ IsNaN(y) THEN NaN
  ELSE IF IsInf(x) THEN (IF IsInf(y) THEN NaN ELSE Inf)
  ELSE IF IsInf(y) THEN Zero
  ELSE IF PSign(y.num) = 0 THEN (IF PSign(x.num) = 0 THEN NaN ELSE Inf)
  ELSE IF x.den = y.den THEN Reduce(x.num, y.num)
  ELSE Reduce(PMul(x.num, y.den), PMul(x.den, y.num))

\* np.exp(alpha * np.log(x)) for an integer alpha >= 1: x^alpha, where
\* log(0) = -inf gives exp(-inf) = 0 and nan propagates.
ExpLog(x, alpha) ==
  IF IsNaN(x) THEN NaN
  ELSE IF IsInf(x) THEN Inf
  ELSE Reduce(PPow(x.num, alpha), PPow(x.den, alpha))

\* x < y and x <= y of float64: false as soon as an operand is nan.
FLess(x, y) ==
  IF IsNaN(x) \/ IsNaN(y) THEN FALSE
  ELSE IF IsInf(x) THEN FALSE
  ELSE IF IsInf(y) THEN TRUE
  ELSE PSign(PSub(PMul(x.num, y.den), PMul(y.num, x.den))) < 0

FEq(x, y) ==
  IF IsNaN(x) \/ IsNaN(y) THEN FALSE
  ELSE IF IsInf(x) \/ IsInf(y) THEN IsInf(x) /\ IsInf(y)
  ELSE PSign(PSub(PMul(x.num, y.den), PMul(y.num, x.den))) = 0

FLeq(x, y) == FLess(x, y) \/ FEq(x, y)


\* ------------------------------------------------------- world model
\* The module-scope lists of the notebook (read by every stage).
VARIABLES objects, utterances
\* The query last evaluated in the session and what it returned.
VARIABLES call, ret
\* History of the session: whether the last query repeats the one before
\* it, and whether some earlier query ended in a KeyError or a nan row.
VARIABLE history
\* The function calls, normalisations and returns made while the last
\* query was evaluated, in program order.
VARIABLE trace

vars == <<objects, utterances, call, ret, history, trace>>

BlueSquare == [color |-> "blue", shape |-> "square", string |-> "blue square"]
BlueCircle == [color |-> "blue", shape |-> "circle", string |-> "blue circle"]
GreenSquare == [color |-> "green", shape |-> "square", string |-> "green square"]
GreenCircle == [color |-> "green", shape |-> "circle", string |-> "green circle"]

\* The objects and utterances the notebook registers.
CanonicalObjects == <<BlueSquare, BlueCircle, GreenSquare>>
\* Variant: an utterance true of no canonical object is registered too.
CanonicalUtterancesWithRed == <<"blue", "green", "square", "circle", "red">>
CanonicalUtterances == <<"blue", "green", "square", "circle">>

\* ------------------------------------------------------------ meaning
\* Variant: only the color is compared.
meaning_color_only(obj, utt) == utt = obj.color

meaning(obj, utt) == (utt = obj.color) \/ (utt = obj.shape)

\* ----------------------------------------------------- normalize_rows
RECURSIVE SumFrom(_, _)
SumFrom(row, i) == IF i > Len(row) THEN Zero ELSE FAdd(row[i], SumFrom(row, i + 1))

\* Variant: nan entries are left out of the total (np.nansum).
RECURSIVE NanSumFrom(_, _)
NanSumFrom(row, i) ==
  IF i > Len(row) THEN Zero
  ELSE IF IsNaN(row[i]) THEN NanSumFrom(row, i + 1)
  ELSE FAdd(row[i], NanSumFrom(row, i + 1))
RowTotalsIgnoringNaN(matrix) ==
  Array(LAMBDA i : NanSumFrom(matrix[i], 1), Len(matrix))

\* np.sum(matrix, axis=1): one total per row.
RowTotals(matrix) == Array(LAMBDA i : SumFrom(matrix[i], 1), Len(matrix))

\* matrix / totals[:, np.newaxis]
DivideRow(row, total) == Array(LAMBDA j : FDiv(row[j], total), Len(row))
DivideRows(matrix, totals) ==
  Array(LAMBDA i : DivideRow(matrix[i], totals[i]), Min2(Len(matrix), Len(totals)))

\* Variant: every row is divided by the total of the first row.
normalize_rows_first_total(matrix) ==
  DivideRows(matrix, Array(LAMBDA i : SumFrom(Head(matrix), 1), Len(matrix)))

\* Variant: a row whose total is 0 is left as it is (divided by 1).
normalize_rows_guarded(matrix) ==
  DivideRows(matrix,
             Array(LAMBDA i : IF IsZero(SumFrom(matrix[i], 1)) THEN One
                              ELSE SumFrom(matrix[i], 1),
                   Len(matrix)))

normalize_rows(matrix) == DivideRows(matrix, RowTotals(matrix))

\* np.array(all_vals).T
Column(matrix, j) == Array(LAMBDA i : matrix[i][j], Len(matrix))
Transpose(matrix, ncols) == Array(LAMBDA j : Column(matrix, j), ncols)

\* ------------------------------------------------- pandas DataFrame
DataFrame(data, columns, index) ==
  [data |-> data, columns |-> columns, index |-> index]

HasLabel(df, key) == \E i \in 1..Len(df.index) : df.index[i] = key

\* df.loc[key]: the row labelled key; a missing label raises KeyError.
Loc(df, key) == df.data[CHOOSE i \in 1..Len(df.index) : df.index[i] = key]

KeyError == [kind |-> "KeyError"]

\* Variant: the first row of the table is returned (df.iloc[0]).
ReturnedFirstRow(df, key) ==
  IF HasLabel(df, key) THEN [kind |-> "ok", df |-> df, probs |-> Head(df.data)]
  ELSE KeyError

Returned(df, key) ==
  IF HasLabel(df, key) THEN [kind |-> "ok", df |-> df, probs |-> Loc(df, key)]
  ELSE KeyError

Labels == Array(LAMBDA j : objects[j].string, Len(objects))

\* --------------------------------------------------- literal_listener
\* Variant: a true entry is weighted by a prior that grows with the
\* position of the object.
CountsRowWithPrior(curr_utt) ==
  Array(LAMBDA j : IF meaning(objects[j], curr_utt) THEN [num |-> <<j>>, den |-> <<1>>]
                   ELSE Zero,
        Len(objects))

\* Row i of all_counts: 1 where curr_utt is true of the object, else 0.
CountsRow(curr_utt) ==
  Array(LAMBDA j : IF meaning(objects[j], curr_utt) THEN One ELSE Zero, Len(objects))

all_counts == Array(LAMBDA i : CountsRow(utterances[i]), Len(utterances))

\* Variant: the counts are normalised per object (axis 0), not per utterance.
literal_listener_df_per_object ==
  DataFrame(Transpose(normalize_rows(Transpose(all_counts, Len(objects))),
                      Len(utterances)),
            Labels, utterances)

literal_listener_df == DataFrame(normalize_rows(all_counts), Labels, utterances)

\* Variant: the table is built for the requested utterance only.
literal_listener_single_row(utt) ==
  Returned(DataFrame(normalize_rows(<<CountsRow(utt)>>), Labels, <<utt>>), utt)

literal_listener(utt) == Returned(literal_listener_df, utt)

\* -------------------------------------------------- pragmatic_speaker
\* Variant: no stabilising epsilon (log of zero is not guarded).
SpeakerEpsilonZero == Zero

\* epsilon = 0.000000001: one unit of the first fractional digit.
SpeakerEpsilon == [num |-> <<0, 1>>, den |-> <<1>>]

\* Variant: epsilon is added after the exponentiation, not inside the log.
SpeakerValEpsilonOutside(utility, alpha) ==
  Array(LAMBDA j : FAdd(ExpLog(utility[j], alpha), SpeakerEpsilon), Len(utility))

\* Variant: the logarithm is taken of the bare utility.
LogArgumentUnguarded(utility) == utility

\* utility + epsilon: the argument of np.log.
LogArgument(utility) ==
  Array(LAMBDA j : FAdd(utility[j], SpeakerEpsilon), Len(utility))

\* np.exp(alpha * np.log(args)), entry by entry.
ExpLogRow(args, alpha) == Array(LAMBDA j : ExpLog(args[j], alpha), Len(args))

\* Variant: the sign of alpha is flipped, np.exp(-alpha * np.log(...)).
SpeakerValNegativeAlpha(utility, alpha) ==
  Array(LAMBDA j : FDiv(One, ExpLog(FAdd(utility[j], SpeakerEpsilon), alpha)),
        Len(utility))

\* Variant: the optimality parameter is ignored (alpha = 1).
SpeakerValIgnoringAlpha(utility, alpha) == ExpLogRow(LogArgument(utility), 1)

\* val = np.exp(alpha * np.log(utility + epsilon))
SpeakerVal(utility, alpha) == ExpLogRow(LogArgument(utility), alpha)

\* The rows appended to all_vals: one per utterance, one entry per object.
speaker_all_vals(alpha) ==
  Array(LAMBDA i : SpeakerVal(literal_listener(utterances[i]).probs, alpha),
        Len(utterances))

\* Variant: all_vals is normalised without the transposition, that is per
\* utterance instead of per object.
pragmatic_speaker_df_per_utterance(alpha) ==
  DataFrame(Transpose(normalize_rows(speaker_all_vals(alpha)), Len(objects)),
            utterances, Labels)

pragmatic_speaker_df(alpha) ==
  DataFrame(normalize_rows(Transpose(speaker_all_vals(alpha), Len(objects))),
            utterances, Labels)

\* Variant: the argument must be one of the registered objects.
pragmatic_speaker_by_attributes(obj, alpha) ==
  IF \E j \in 1..Len(objects) : objects[j] = obj
  THEN Returned(pragmatic_speaker_df(alpha), obj.string)
  ELSE KeyError

pragmatic_speaker(obj, alpha) == Returned(pragmatic_speaker_df(alpha), obj.string)

\* ------------------------------------------------- pragmatic_listener
\* 0.0000001 = 100 * 10^-9.
ListenerEpsilonDigit == 100

\* Variant: the listener's epsilon is 0.01.
ListenerEpsilonLarge == [num |-> <<0, 10000000>>, den |-> <<1>>]

ListenerEpsilon == [num |-> <<0, ListenerEpsilonDigit>>, den |-> <<1>>]

\* Variant: the listener adds the speaker's epsilon.
ListenerValSpeakerEpsilon(probs) ==
  Array(LAMBDA i : FAdd(probs[i], SpeakerEpsilon), Len(probs))

\* probs + epsilon
ListenerVal(probs) == Array(LAMBDA i : FAdd(probs[i], ListenerEpsilon), Len(probs))

\* Variant: the speaker is evaluated with alpha = 2 instead of the default.
listener_all_vals_alpha_two ==
  Array(LAMBDA j : ListenerVal(pragmatic_speaker(objects[j], 2).probs), Len(objects))

\* The rows appended to all_vals: one per object, one entry per utterance.
listener_all_vals ==
  Array(LAMBDA j : ListenerVal(pragmatic_speaker(objects[j], 1).probs), Len(objects))

pragmatic_listener_df ==
  DataFrame(normalize_rows(Transpose(listener_all_vals, Len(utterances))),
            Labels, utterances)

pragmatic_listener(utt) == Returned(pragmatic_listener_df, utt)

\* ------------------------------------------- the unstabilised notebook
\* intro-to-rsa.ipynb: the same meaning, normalize_rows and
\* literal_listener, and the two pragmatic stages without epsilon.
\* val = np.exp(alpha * np.log(utility))
unstabilised_speaker_all_vals(alpha) ==
  Array(LAMBDA i : ExpLogRow(literal_listener(utterances[i]).probs, alpha),
        Len(utterances))

unstabilised_pragmatic_speaker_df(alpha) ==
  DataFrame(normalize_rows(Transpose(unstabilised_speaker_all_vals(alpha),
                                     Len(objects))),
            utterances, Labels)

unstabilised_pragmatic_speaker(obj, alpha) ==
  Returned(unstabilised_pragmatic_speaker_df(alpha), obj.string)

\* Variant: the listener adds its epsilon, as the stabilised notebook does.
unstabilised_listener_all_vals_with_epsilon ==
  Array(LAMBDA j : ListenerVal(unstabilised_pragmatic_speaker(objects[j], 1).probs),
        Len(objects))

\* all_vals.append(probs)
unstabilised_listener_all_vals ==
  Array(LAMBDA j : unstabilised_pragmatic_speaker(objects[j], 1).probs, Len(objects))

unstabilised_pragmatic_listener_df ==
  DataFrame(normalize_rows(Transpose(unstabilised_listener_all_vals,
                                     Len(utterances))),
            Labels, utterances)

unstabilised_pragmatic_listener(utt) ==
  Returned(unstabilised_pragmatic_listener_df, utt)

\* --------------------------------------------------- evaluation order
Event(event, op, key) == [event |-> event, op |-> op, key |-> key]

\* df.loc[key] ends the call: it returns the row or raises KeyError.
Finish(op, key, index) ==
  Event(IF \E i \in 1..Len(index) : index[i] = key THEN "return" ELSE "KeyError",
        op, key)

RECURSIVE Flatten(_, _)
Flatten(seqs, i) == IF i > Len(seqs) THEN <<>> ELSE seqs[i] \o Flatten(seqs, i + 1)

literal_listener_trace(utt) ==
  << Event("call", "literal_listener", utt),
     Event("normalize_rows", "literal_listener", utt),
     Finish("literal_listener", utt, utterances) >>

\* for curr_utt in utterances: _, probs = literal_listener(curr_utt)
pragmatic_speaker_trace(obj) ==
  << Event("call", "pragmatic_speaker", obj.string) >>
  \o Flatten(Array(LAMBDA i : literal_listener_trace(utterances[i]),
                   Len(utterances)), 1)
  \o << Event("normalize_rows", "pragmatic_speaker", obj.string),
        Finish("pragmatic_speaker", obj.string, Labels) >>

\* for curr_obj in objects: _, probs = pragmatic_speaker(curr_obj)
pragmatic_listener_trace(utt) ==
  << Event("call", "pragmatic_listener", utt) >>
  \o Flatten(Array(LAMBDA j : pragmatic_speaker_trace(objects[j]),
                   Len(objects)), 1)
  \o << Event("normalize_rows", "pragmatic_listener", utt),
        Finish("pragmatic_listener", utt, utterances) >>

\* --------------------------------------------------------- the session
\* Every object over the two colors and two shapes, canonical ones first.
Universe == CanonicalObjects \o <<GreenCircle>>

\* The sub-list of Universe at the positions in S, in order.
RECURSIVE Pick(_, _)
Pick(S, i) ==
  IF i > Len(Universe) THEN <<>>
  ELSE (IF i \in S THEN <<Universe[i]>> ELSE <<>>) \o Pick(S, i + 1)

\* The object lists a notebook may register in place of the canonical one.
ObjectLists ==
  {Pick(S, 1) : S \in {T \in SUBSET (1..Len(Universe)) :
                         Cardinality(T) >= 1 /\ Cardinality(T) <= MaxObjects}}

\* A world in which the utterance "green" is true of no object.
DegenerateObjects == <<BlueSquare, BlueCircle>>

\* An object whose label is registered in the canonical world but whose
\* attributes are those of no canonical object.
Mislabelled == [color |-> "green", shape |-> "circle", string |-> "blue square"]

ArgObjects == {Universe[i] : i \in 1..Len(Universe)} \cup {Mislabelled}
ArgUtterances == {"blue", "green", "square", "circle", "red"}
Alphas == 1..MaxAlpha

MeaningQueries ==
  {[op |-> "meaning", obj |-> objects[j], utt |-> utterances[i]] :
     j \in 1..Len(objects), i \in 1..Len(utterances)}
LiteralListenerQueries ==
  {[op |-> "literal_listener", utt |-> utt] : utt \in ArgUtterances}
PragmaticSpeakerQueries ==
  {[op |-> "pragmatic_speaker", obj |-> obj, alpha |-> alpha] :
     obj \in ArgObjects, alpha \in Alphas}
PragmaticListenerQueries ==
  {[op |-> "pragmatic_listener", utt |-> utt] : utt \in ArgUtterances}
\* What the query c returns when it is evaluated in the current state.
Evaluate(c) ==
  CASE c.op = "meaning" -> [kind |-> "ok", value |-> meaning(c.obj, c.utt)]
    [] c.op = "literal_listener" -> literal_listener(c.utt)
    [] c.op = "pragmatic_speaker" -> pragmatic_speaker(c.obj, c.alpha)
    [] c.op = "pragmatic_listener" -> pragmatic_listener(c.utt)

NoCall == [op |-> "none"]
NoReturn == [kind |-> "none"]
NoHistory == [repeated |-> FALSE, failed |-> FALSE]

\* The query ended in a KeyError or returned a row holding nan.
Failed(r) ==
  \/ r.kind = "KeyError"
  \/ /\ r.kind = "ok"
     /\ "probs" \in DOMAIN r
     /\ \E j \in 1..Len(r.probs) : IsNaN(r.probs[j])

InitWith(worlds) ==
  /\ objects \in worlds
  /\ utterances = CanonicalUtterances
  /\ call = NoCall
  /\ ret = NoReturn
  /\ history = NoHistory
  /\ trace = <<>>

Init == InitWith(ObjectLists)

CallMeaning ==
  \E c \in MeaningQueries :
    /\ call' = c
    /\ ret' = [kind |-> "ok", value |-> meaning(c.obj, c.utt)]
    /\ trace' = <<>>
    /\ UNCHANGED <<objects, utterances>>

\* Variant: a repeated literal_listener query is served from the result of
\* the previous query instead of being evaluated.
CallLiteralListenerCached ==
  \E c \in LiteralListenerQueries :
    /\ call' = c
    /\ ret' = IF call.op = "literal_listener" THEN ret ELSE literal_listener(c.utt)
    /\ trace' = IF call.op = "literal_listener" THEN <<>>
                ELSE literal_listener_trace(c.utt)
    /\ UNCHANGED <<objects, utterances>>

CallLiteralListener ==
  \E c \in LiteralListenerQueries :
    /\ call' = c
    /\ ret' = literal_listener(c.utt)
    /\ trace' = literal_listener_trace(c.utt)
    /\ UNCHANGED <<objects, utterances>>

\* Variant: a query that repeats the previous one is answered from the
\* previous result, without evaluating the literal listener again.
CallPragmaticSpeakerMemoised ==
  \E c \in PragmaticSpeakerQueries :
    /\ call' = c
    /\ ret' = IF call = c THEN ret ELSE pragmatic_speaker(c.obj, c.alpha)
    /\ trace' = IF call = c
                THEN << Event("call", "pragmatic_speaker", c.obj.string),
                        Finish("pragmatic_speaker", c.obj.string, Labels) >>
                ELSE pragmatic_speaker_trace(c.obj)
    /\ UNCHANGED <<objects, utterances>>

CallPragmaticSpeaker ==
  \E c \in PragmaticSpeakerQueries :
    /\ call' = c
    /\ ret' = pragmatic_speaker(c.obj, c.alpha)
    /\ trace' = pragmatic_speaker_trace(c.obj)
    /\ UNCHANGED <<objects, utterances>>

\* Variant: an unknown utterance is registered before the lookup fails.
CallPragmaticListenerRegistering ==
  \E c \in PragmaticListenerQueries :
    /\ call' = c
    /\ ret' = pragmatic_listener(c.utt)
    /\ trace' = pragmatic_listener_trace(c.utt)
    /\ utterances' = IF \E i \in 1..Len(utterances) : utterances[i] = c.utt
                     THEN utterances ELSE Append(utterances, c.utt)
    /\ UNCHANGED objects

CallPragmaticListener ==
  \E c \in PragmaticListenerQueries :
    /\ call' = c
    /\ ret' = pragmatic_listener(c.utt)
    /\ trace' = pragmatic_listener_trace(c.utt)
    /\ UNCHANGED <<objects, utterances>>

\* One query in any world: the history is not recorded.
Next ==
  \/ CallMeaning /\ UNCHANGED history
  \/ CallLiteralListener /\ UNCHANGED history
  \/ CallPragmaticSpeaker /\ UNCHANGED history
  \/ CallPragmaticListener /\ UNCHANGED history

Spec == Init /\ [][Next]_vars

\* Sequences of queries in the canonical world and in a degenerate one,
\* with the history recorded.
Record ==
  history' = [repeated |-> call' = call,
              failed |-> history.failed \/ Failed(ret)]

SessionInit == InitWith({CanonicalObjects, DegenerateObjects})

SessionNext ==
  \/ CallMeaning /\ Record
  \/ CallLiteralListener /\ Record
  \/ CallPragmaticSpeaker /\ Record
  \/ CallPragmaticListener /\ Record

Session == SessionInit /\ [][SessionNext]_vars

\* ---------------------------------------------------------- properties
Frac(n, d) == [num |-> <<n>>, den |-> <<d>>]
OneBillionth == [num |-> <<0, 1>>, den |-> <<1>>]
OneMillionth == [num |-> <<0, 1000>>, den |-> <<1>>]

\* |x - y| <= tol, for finite x and y.
Within(x, y, tol) ==
  /\ IsFinite(x) /\ IsFinite(y)
  /\ FLeq(x, FAdd(y, tol))
  /\ FLeq(y, FAdd(x, tol))

RowSum(row) == SumFrom(row, 1)
RowEquals(row, expected) ==
  Len(row) = Len(expected) /\ \A j \in 1..Len(row) : FEq(row[j], expected[j])
RowWithin(row, expected, tol) ==
  Len(row) = Len(expected) /\ \A j \in 1..Len(row) : Within(row[j], expected[j], tol)

\* np.max of a row: nan as soon as one entry is nan.
RECURSIVE MaxFrom(_, _)
MaxFrom(row, i) ==
  IF i >= Len(row) THEN row[i]
  ELSE LET rest == MaxFrom(row, i + 1)
       IN IF IsNaN(row[i]) \/ IsNaN(rest) THEN NaN
          ELSE IF FLess(row[i], rest) THEN rest ELSE row[i]
MaxEntry(row) == MaxFrom(row, 1)

HasNonZero(row) == \E j \in 1..Len(row) : IsFinite(row[j]) /\ ~IsZero(row[j])
HasNaN(row) == \E j \in 1..Len(row) : IsNaN(row[j])

IsStage(c) == c.op \in {"literal_listener", "pragmatic_speaker", "pragmatic_listener"}
StageReturned == IsStage(call) /\ ret.kind = "ok"
KeyOf(c) == IF c.op = "pragmatic_speaker" THEN c.obj.string ELSE c.utt

\* The matrix the stage of query c hands to normalize_rows.
Unnormalised(c) ==
  CASE c.op = "literal_listener" -> all_counts
    [] c.op = "pragmatic_speaker" -> Transpose(speaker_all_vals(c.alpha), Len(objects))
    [] c.op = "pragmatic_listener" -> Transpose(listener_all_vals, Len(utterances))

\* The row of that matrix which becomes the returned distribution.
UnnormalisedRow ==
  Unnormalised(call)[CHOOSE i \in 1..Len(ret.df.index) : ret.df.index[i] = KeyOf(call)]

Canonical == objects = CanonicalObjects /\ utterances = CanonicalUtterances
Registered(obj) == \E j \in 1..Len(objects) : objects[j] = obj
RegisteredUtterance(utt) == \E i \in 1..Len(utterances) : utterances[i] = utt

C2_LiteralTable ==
  (Canonical /\ call.op = "literal_listener" /\ ret.kind = "ok") =>
    /\ ret.df.columns = <<"blue square", "blue circle", "green square">>
    /\ RowEquals(Loc(ret.df, "blue"), <<Frac(1, 2), Frac(1, 2), Zero>>)
    /\ RowEquals(Loc(ret.df, "green"), <<Zero, Zero, One>>)
    /\ RowEquals(Loc(ret.df, "square"), <<Frac(1, 2), Zero, Frac(1, 2)>>)
    /\ RowEquals(Loc(ret.df, "circle"), <<Zero, One, Zero>>)
    /\ call.utt = "square" => RowEquals(ret.probs, <<Frac(1, 2), Zero, Frac(1, 2)>>)
    /\ call.utt = "blue" => RowEquals(ret.probs, <<Frac(1, 2), Frac(1, 2), Zero>>)

C2_Witness ==
  /\ Canonical /\ call = [op |-> "literal_listener", utt |-> "square"]
  /\ ret.kind = "ok"
  /\ RowEquals(ret.probs, <<Frac(1, 2), Zero, Frac(1, 2)>>)

\* C3: on the canonical world pragmatic_listener("blue") gives blue square
\* strictly more mass than blue circle, and blue circle strictly more than
\* green square.
C3_BlueOrdering ==
  (Canonical /\ call = [op |-> "pragmatic_listener", utt |-> "blue"]) =>
    /\ ret.kind = "ok"
    /\ ret.df.columns = <<"blue square", "blue circle", "green square">>
    /\ FLess(ret.probs[2], ret.probs[1])
    /\ FLess(ret.probs[3], ret.probs[2])

C3_Witness ==
  /\ Canonical /\ call = [op |-> "pragmatic_listener", utt |-> "blue"]
  /\ FLess(ret.probs[3], ret.probs[2]) /\ FLess(ret.probs[2], ret.probs[1])
  /\ FLess(Zero, ret.probs[3])

C5_ListenerTable ==
  (Canonical /\ call.op = "pragmatic_listener" /\ ret.kind = "ok") =>
    /\ ret.df.columns = <<"blue square", "blue circle", "green square">>
    /\ RowWithin(Loc(ret.df, "blue"), <<Frac(3, 5), Frac(2, 5), Zero>>, OneMillionth)
    /\ RowWithin(Loc(ret.df, "green"), <<Zero, Zero, One>>, OneMillionth)
    /\ RowWithin(Loc(ret.df, "square"), <<Frac(3, 5), Zero, Frac(2, 5)>>, OneMillionth)
    /\ RowWithin(Loc(ret.df, "circle"), <<Zero, One, Zero>>, OneMillionth)
    /\ call.utt = "blue" =>
         RowWithin(ret.probs, <<Frac(3, 5), Frac(2, 5), Zero>>, OneMillionth)

C5_Witness ==
  /\ Canonical /\ call = [op |-> "pragmatic_listener", utt |-> "blue"]
  /\ ret.kind = "ok"
  /\ RowWithin(ret.probs, <<Frac(3, 5), Frac(2, 5), Zero>>, OneMillionth)
  /\ ~FEq(ret.probs[1], Frac(3, 5))

\* C6: for every registered object and utterance, meaning returns a boolean
\* that is true exactly when the utterance equals the object's color or
\* equals the object's shape.
C6_MeaningIff ==
  call.op = "meaning" =>
    /\ Registered(call.obj) /\ RegisteredUtterance(call.utt)
    /\ ret.kind = "ok"
    /\ ret.value \in BOOLEAN
    /\ ret.value <=> (call.utt = call.obj.color \/ call.utt = call.obj.shape)

C6_Witness ==
  /\ call.op = "meaning" /\ call.obj = GreenCircle /\ call.utt = "circle"
  /\ ret.value = TRUE

ValidQuery ==
  CASE call.op = "meaning" -> Registered(call.obj) /\ RegisteredUtterance(call.utt)
    [] call.op = "pragmatic_speaker" -> Registered(call.obj)
    [] call.op \in {"literal_listener", "pragmatic_listener"} -> RegisteredUtterance(call.utt)
    [] OTHER -> FALSE

C9_WorldFrame ==
  /\ [][objects' = objects /\ utterances' = utterances]_vars
  /\ []((history.failed /\ ValidQuery) => ret = Evaluate(call))

C9_Witness ==
  /\ history.failed /\ ~history.repeated
  /\ Canonical /\ call = [op |-> "pragmatic_listener", utt |-> "blue"]
  /\ ret.kind = "ok" /\ ~HasNaN(ret.probs)

\* C10: literal_listener or pragmatic_listener called with an utterance that
\* is not registered, and pragmatic_speaker called with an object that is
\* not registered, ends in an error and returns no row.
C10_InvalidKeyFails ==
  /\ (call.op \in {"literal_listener", "pragmatic_listener"}
        /\ ~RegisteredUtterance(call.utt)) => ret = KeyError
  /\ (call.op = "pragmatic_speaker" /\ ~Registered(call.obj)) => ret = KeyError


\* C11: log-of-zero guard.  In pragmatic_speaker, and so in the speaker
\* calls pragmatic_listener makes, every argument handed to the logarithm
\* for an utterance whose literal-listener row is defined is finite and
\* strictly positive, although that row may hold exact zeros; when the
\* whole literal-listener table is defined, the call returns a row of
\* finite entries (or the KeyError of an unknown key).
LiteralTableDefined ==
  \A i \in 1..Len(utterances) : ~HasNaN(literal_listener(utterances[i]).probs)
TrueOfSome(utt) == \E j \in 1..Len(objects) : meaning(objects[j], utt)
SatisfiableUtterances == SelectSeq(utterances, LAMBDA u : TrueOfSome(u))
SatisfiableTable ==
  DataFrame(normalize_rows(Array(LAMBDA i : CountsRow(SatisfiableUtterances[i]),
                                 Len(SatisfiableUtterances))),
            Labels, SatisfiableUtterances)
Undefined(x) == IsNaN(x) \/ IsInf(x)
C12_DegenerateRow ==
  (call.op = "literal_listener" /\ RegisteredUtterance(call.utt)) =>
    /\ ret.kind = "ok"
    /\ ~TrueOfSome(call.utt) =>
         /\ Len(ret.probs) = Len(objects)
         /\ \A j \in 1..Len(ret.probs) : Undefined(ret.probs[j])
    /\ \A i \in 1..Len(utterances) :
         LET row == Loc(ret.df, utterances[i])
         IN IF TrueOfSome(utterances[i])
            THEN RowEquals(row, Loc(SatisfiableTable, utterances[i]))
            ELSE \A j \in 1..Len(row) : Undefined(row[j])
C12_Witness ==
  /\ call.op = "literal_listener" /\ RegisteredUtterance(call.utt)
  /\ ~TrueOfSome(call.utt)
  /\ ret.kind = "ok" /\ IsNaN(ret.probs[1])
  /\ \E i \in 1..Len(utterances) :
       /\ TrueOfSome(utterances[i])
       /\ HasNonZero(Loc(ret.df, utterances[i]))
       /\ ~HasNaN(Loc(ret.df, utterances[i]))

\* C13: literal-listener reference result.  In every world, for every
\* registered utterance u true of k >= 1 registered objects, the entry of
\* the literal-listener table for u and object s is exactly 1/k when
\* meaning(s, u) holds and exactly 0 when it does not.
TrueCount(utt) ==
  Cardinality({j \in 1..Len(objects) : meaning(objects[j], utt)})
C13_LiteralReference ==
  (call.op = "literal_listener" /\ ret.kind = "ok") =>
    \A i \in 1..Len(utterances) :
      LET u == utterances[i]
          k == TrueCount(u)
          row == Loc(ret.df, u)
      IN k >= 1 =>
           /\ Len(row) = Len(objects)
           /\ \A j \in 1..Len(objects) :
                IF meaning(objects[j], u) THEN FEq(row[j], Frac(1, k))
                ELSE IsZero(row[j])
C13_Witness ==
  /\ call.op = "literal_listener" /\ ret.kind = "ok"
  /\ TrueCount(call.utt) = 2
  /\ Len(objects) = 3
  /\ \E j \in 1..Len(objects) : FEq(ret.probs[j], Frac(1, 2))
  /\ \E j \in 1..Len(objects) : IsZero(ret.probs[j])

\* The same float64 value: equal numbers, or nan on both sides.
SameValue(x, y) == (IsNaN(x) /\ IsNaN(y)) \/ FEq(x, y)

\* x * y and x^n by repeated multiplication.
FTimes(x, y) ==
  IF IsNaN(x) \/ IsNaN(y) THEN NaN
  ELSE IF IsInf(x) \/ IsInf(y) THEN Inf
  ELSE Reduce(PMul(x.num, y.num), PMul(x.den, y.den))
RECURSIVE Power(_, _)
Power(x, n) == IF n <= 1 THEN x ELSE FTimes(x, Power(x, n - 1))

\* C14: pragmatic-speaker reference result.  For every object s, utterance
\* u and alpha, the entry (s, u) of the speaker table is
\* (L0(s|u) + 1e-9)^alpha divided by the sum over all utterances u' of
\* (L0(s|u') + 1e-9)^alpha, where L0(s|u) is the literal-listener entry:
\* no cost term, and the normalisation runs over the utterances for a
\* fixed object.
SpeakerTerm(j, i, alpha) ==
  Power(FAdd(literal_listener(utterances[i]).probs[j], OneBillionth), alpha)
SpeakerTerms(j, alpha) ==
  Array(LAMBDA i : SpeakerTerm(j, i, alpha), Len(utterances))
C14_SpeakerReference ==
  (call.op = "pragmatic_speaker" /\ ret.kind = "ok") =>
    \A j \in 1..Len(objects) :
      LET terms == SpeakerTerms(j, call.alpha)
          total == SumFrom(terms, 1)
      IN \A i \in 1..Len(utterances) :
           SameValue(ret.df.data[j][i], FDiv(terms[i], total))
C14_Witness ==
  /\ call.op = "pragmatic_speaker" /\ ret.kind = "ok"
  /\ Canonical /\ call.alpha = 2 /\ call.obj = BlueSquare
  /\ ~HasNaN(ret.probs)
  /\ \E i \in 1..Len(utterances) :
       /\ FLess(Frac(1, 3), ret.probs[i])
       /\ FEq(ret.probs[i],
              FDiv(SpeakerTerm(1, i, 2), SumFrom(SpeakerTerms(1, 2), 1)))

\* C15: pragmatic-listener reference result.  For every utterance u and
\* object s, the entry (u, s) of the pragmatic-listener table is
\* (S1(u|s) + 1e-7) divided by the sum over all objects s' of
\* (S1(u|s') + 1e-7), where S1 is the speaker table at alpha = 1; the
\* listener's epsilon is 1e-7, larger than the speaker's, and no prior
\* over objects is applied.
OneTenMillionth == [num |-> <<0, 100>>, den |-> <<1>>]
ListenerTerm(i, j) ==
  FAdd(pragmatic_speaker(objects[j], 1).probs[i], OneTenMillionth)
ListenerTerms(i) == Array(LAMBDA j : ListenerTerm(i, j), Len(objects))
C15_ListenerReference ==
  (call.op = "pragmatic_listener" /\ ret.kind = "ok") =>
    /\ FEq(ListenerEpsilon, OneTenMillionth)
    /\ FLess(SpeakerEpsilon, ListenerEpsilon)
    /\ \A i \in 1..Len(utterances) :
         LET terms == ListenerTerms(i)
             total == SumFrom(terms, 1)
         IN \A j \in 1..Len(objects) :
              SameValue(ret.df.data[i][j], FDiv(terms[j], total))
C15_Witness ==
  /\ call.op = "pragmatic_listener" /\ ret.kind = "ok"
  /\ Canonical /\ call.utt = "blue"
  /\ FLess(ret.probs[2], ret.probs[1])
  /\ FLess(Zero, ret.probs[3])
  /\ FEq(ret.probs[3], FDiv(ListenerTerm(1, 3), SumFrom(ListenerTerms(1), 1)))

\* C16: the returned row is a row of the returned table.  For every stage
\* and every valid key the returned distribution is exactly the row of the
\* returned table labelled with the requested key.  A literal-listener or
\* pragmatic-listener table has one row per utterance and one column per
\* object label, in registered order; a speaker table has one row per
\* object label and one column per utterance, in registered order.
C16_RowOfTable ==
  StageReturned =>
    /\ HasLabel(ret.df, KeyOf(call))
    /\ ret.probs = Loc(ret.df, KeyOf(call))
    /\ Len(ret.df.data) = Len(ret.df.index)
    /\ \A r \in 1..Len(ret.df.data) : Len(ret.df.data[r]) = Len(ret.df.columns)
    /\ Len(ret.probs) = Len(ret.df.columns)
    /\ IF call.op = "pragmatic_speaker"
       THEN ret.df.index = Labels /\ ret.df.columns = utterances
       ELSE ret.df.index = utterances /\ ret.df.columns = Labels
C16_Witness ==
  /\ call.op = "pragmatic_listener" /\ ret.kind = "ok"
  /\ Canonical /\ call.utt = "square"
  /\ ret.probs = ret.df.data[3]
  /\ ret.probs # ret.df.data[1]
  /\ ret.df.columns = <<"blue square", "blue circle", "green square">>

\* Positions of the trace at which op is called (with the given key).
Calls(op) ==
  {n \in 1..Len(trace) : trace[n].event = "call" /\ trace[n].op = op}
CallsWith(op, key) == {n \in Calls(op) : trace[n].key = key}

\* The evaluation of a stage starts with its call and ends with its
\* normalisation and return; every call nested in it has returned before
\* that normalisation.
WellNested ==
  IsStage(call) =>
    /\ Len(trace) >= 3
    /\ trace[1] = Event("call", call.op, KeyOf(call))
    /\ trace[Len(trace) - 1] = Event("normalize_rows", call.op, KeyOf(call))
    /\ trace[Len(trace)].event = (IF ret.kind = "ok" THEN "return" ELSE "KeyError")
    /\ \A n \in 2..(Len(trace) - 2) :
         trace[n].event = "call" =>
           \E m \in (n + 1)..(Len(trace) - 2) :
             trace[m] = Event("return", trace[n].op, trace[n].key)

\* C17: recompute on every call, no caching.  Each pragmatic_speaker call
\* calls literal_listener exactly once for every registered utterance;
\* each pragmatic_listener call calls pragmatic_speaker exactly once for
\* every registered object, hence literal_listener |objects| * |utterances|
\* times; the nested calls have returned before the outer normalisation;
\* and a query that repeats the previous one is evaluated again in full,
\* with the same calls, not answered from the earlier result.
C17_Invocations ==
  /\ call.op = "pragmatic_speaker" =>
       /\ \A i \in 1..Len(utterances) :
            Cardinality(CallsWith("literal_listener", utterances[i])) = 1
       /\ Cardinality(Calls("literal_listener")) = Len(utterances)
       /\ Cardinality(Calls("pragmatic_speaker")) = 1
  /\ call.op = "pragmatic_listener" =>
       /\ \A j \in 1..Len(objects) :
            Cardinality(CallsWith("pragmatic_speaker", objects[j].string)) = 1
       /\ Cardinality(Calls("pragmatic_speaker")) = Len(objects)
       /\ Cardinality(Calls("literal_listener")) = Len(objects) * Len(utterances)
  /\ WellNested
C17_Recompute ==
  /\ []C17_Invocations
  /\ [][call' = call => trace' = trace]_vars
C17_Witness ==
  /\ call.op = "pragmatic_listener" /\ ret.kind = "ok"
  /\ history.repeated
  /\ Canonical
  /\ Cardinality(Calls("literal_listener")) = 12
  /\ Cardinality(Calls("pragmatic_speaker")) = 3

\* |x - y| < tol, for finite x and y.
StrictlyWithin(x, y, tol) ==
  /\ IsFinite(x) /\ IsFinite(y)
  /\ FLess(x, FAdd(y, tol))
  /\ FLess(y, FAdd(x, tol))
TableStrictlyWithin(data, expected, tol) ==
  /\ Len(data) = Len(expected)
  /\ \A r \in 1..Len(data) :
       /\ Len(data[r]) = Len(expected[r])
       /\ \A k \in 1..Len(data[r]) : StrictlyWithin(data[r][k], expected[r][k], tol)

\* C18: epsilon insensitivity at alpha = 1.  On the canonical world every
\* entry of the speaker table at alpha = 1 and every entry of the
\* pragmatic-listener table differs by less than 1e-6 from the entry the
\* notebook without the stabilising epsilons computes.
C18_EpsilonInsensitive ==
  Canonical =>
    /\ (call.op = "pragmatic_speaker" /\ call.alpha = 1 /\ ret.kind = "ok") =>
         TableStrictlyWithin(ret.df.data,
                             unstabilised_pragmatic_speaker_df(1).data,
                             OneMillionth)
    /\ (call.op = "pragmatic_listener" /\ ret.kind = "ok") =>
         TableStrictlyWithin(ret.df.data,
                             unstabilised_pragmatic_listener_df.data,
                             OneMillionth)
C18_Witness ==
  /\ Canonical
  /\ call.op = "pragmatic_listener" /\ ret.kind = "ok" /\ call.utt = "blue"
  /\ IsZero(unstabilised_pragmatic_listener("blue").probs[3])
  /\ FLess(Zero, ret.probs[3])
  /\ FEq(unstabilised_pragmatic_listener("blue").probs[1], Frac(3, 5))
  /\ ~FEq(ret.probs[1], Frac(3, 5))

\* The query c with its key replaced by key.
WithKey(c, key) ==
  IF c.op = "pragmatic_speaker"
  THEN [c EXCEPT !.obj = CHOOSE o \in ArgObjects : Registered(o) /\ o.string = key]
  ELSE [c EXCEPT !.utt = key]

\* C19: the table does not depend on the key.  For every stage, the table
\* returned for one registered key is the table returned for every other
\* registered key (with the same alpha for the speaker); the key only
\* selects which row of that table is returned as the distribution.
C19_TableIndependentOfKey ==
  StageReturned =>
    LET keys == IF call.op = "pragmatic_speaker" THEN Labels ELSE utterances
    IN \A r \in 1..Len(keys) :
         LET other == Evaluate(WithKey(call, keys[r]))
         IN /\ other.kind = "ok"
            /\ other.df = ret.df
            /\ HasLabel(ret.df, keys[r])
            /\ other.probs = Loc(ret.df, keys[r])
C19_Witness ==
  /\ call.op = "literal_listener" /\ ret.kind = "ok"
  /\ Canonical /\ call.utt = "circle"
  /\ literal_listener("blue").df = ret.df
  /\ literal_listener("blue").probs # ret.probs

\* C20: pragmatic_speaker identifies its argument by the label only.  Two
\* arguments with the same "string" label get identical results, whatever
\* their color and shape; so an argument that is no registered object but
\* carries the label of a registered one is accepted and answered with the
\* row of that registered object.
LabelRegistered(obj) == \E j \in 1..Len(objects) : objects[j].string = obj.string
C20_LabelOnlyIdentity ==
  call.op = "pragmatic_speaker" =>
    /\ \A o \in ArgObjects :
         o.string = call.obj.string => pragmatic_speaker(o, call.alpha) = ret
    /\ (~Registered(call.obj) /\ LabelRegistered(call.obj)) =>
         /\ ret.kind = "ok"
         /\ \A j \in 1..Len(objects) :
              objects[j].string = call.obj.string =>
                /\ ret.probs = ret.df.data[j]
                /\ ret = pragmatic_speaker(objects[j], call.alpha)
C20_Witness ==
  /\ call.op = "pragmatic_speaker" /\ call.obj = Mislabelled
  /\ Canonical
  /\ ~Registered(call.obj)
  /\ call.obj.color # BlueSquare.color /\ call.obj.shape # BlueSquare.shape
  /\ ret.kind = "ok"
  /\ ret = pragmatic_speaker(BlueSquare, call.alpha)

\* C21: propagation of a degenerate literal-listener row.  When some
\* registered utterance is true of no registered object, every entry of
\* every row of the speaker table (for every object and every utterance)
\* and every entry of every row of the pragmatic-listener table is
\* undefined: the epsilons of the two stages do not recover it.
SomeUtteranceTrueOfNone ==
  \E i \in 1..Len(utterances) : ~TrueOfSome(utterances[i])
AllUndefined(data) ==
  \A r \in 1..Len(data) : \A k \in 1..Len(data[r]) : Undefined(data[r][k])
C21_DegeneratePropagates ==
  (SomeUtteranceTrueOfNone
     /\ call.op \in {"pragmatic_speaker", "pragmatic_listener"}
     /\ ret.kind = "ok") =>
    /\ Len(ret.df.data) = Len(ret.df.index)
    /\ AllUndefined(ret.df.data)
    /\ Len(ret.probs) = Len(ret.df.columns)
    /\ \A k \in 1..Len(ret.probs) : Undefined(ret.probs[k])
C21_Witness ==
  /\ objects = DegenerateObjects
  /\ call.op = "pragmatic_speaker" /\ call.obj = BlueSquare /\ ret.kind = "ok"
  /\ ~TrueOfSome("green") /\ TrueOfSome("blue")
  /\ ~HasNaN(literal_listener("blue").probs)
  /\ Len(ret.probs) = 4
  /\ IsNaN(ret.probs[1]) /\ IsNaN(ret.probs[2])

\* The speaker row of the query prefers informative utterances: of two
\* utterances true of the object, the one true of strictly fewer objects
\* has strictly more mass, and every utterance true of the object has
\* strictly more mass than every utterance false of it.
PrefersInformative ==
  LET s == CHOOSE o \in {objects[j] : j \in 1..Len(objects)} :
             o.string = call.obj.string
  IN \A i1 \in 1..Len(utterances) : \A i2 \in 1..Len(utterances) :
       LET u1 == utterances[i1]
           u2 == utterances[i2]
       IN /\ (meaning(s, u1) /\ meaning(s, u2) /\ TrueCount(u1) < TrueCount(u2))
               => FLess(ret.probs[i2], ret.probs[i1])
          /\ (meaning(s, u1) /\ ~meaning(s, u2))
               => FLess(ret.probs[i2], ret.probs[i1])

NonDegenerate ==
  /\ \A i \in 1..Len(utterances) : TrueOfSome(utterances[i])
  /\ \A j \in 1..Len(objects) :
       \E i \in 1..Len(utterances) : meaning(objects[j], utterances[i])

\* What the notebook without the epsilons returns for the query c.
UnstabilisedEvaluate(c) ==
  CASE c.op = "literal_listener" -> literal_listener(c.utt)
    [] c.op = "pragmatic_speaker" -> unstabilised_pragmatic_speaker(c.obj, c.alpha)
    [] c.op = "pragmatic_listener" -> unstabilised_pragmatic_listener(c.utt)

\* The entry of table df for utterance i and object j (the speaker table
\* has the objects as rows).
Entry(c, df, i, j) ==
  IF c.op = "pragmatic_speaker" THEN df.data[j][i] ELSE df.data[i][j]

\* C23: support preservation without the epsilons.  In every
\* non-degenerate world, at each of the three stages of the notebook
\* without stabilisation (alpha = 1), the entry for object s and utterance
\* u is non-zero if and only if meaning(s, u) holds; a literally false
\* pair has exactly zero mass.
C23_SupportPreserved ==
  (NonDegenerate /\ StageReturned
     /\ (call.op = "pragmatic_speaker" => call.alpha = 1)) =>
    LET r == UnstabilisedEvaluate(call)
    IN /\ r.kind = "ok"
       /\ \A i \in 1..Len(utterances) : \A j \in 1..Len(objects) :
            LET x == Entry(call, r.df, i, j)
            IN /\ IsFinite(x)
               /\ ~IsZero(x) <=> meaning(objects[j], utterances[i])
C23_Witness ==
  /\ NonDegenerate /\ Canonical
  /\ call.op = "pragmatic_listener" /\ call.utt = "blue" /\ ret.kind = "ok"
  /\ ~meaning(GreenSquare, "blue") /\ meaning(BlueCircle, "blue")
  /\ IsZero(UnstabilisedEvaluate(call).probs[3])
  /\ FEq(UnstabilisedEvaluate(call).probs[2], Frac(2, 5))
  /\ ~IsZero(ret.probs[3])

\* C24: the canonical world is non-degenerate.  Every registered utterance
\* is true of some registered object and every registered object has a
\* true utterance; so for every valid query to any of the three stages no
\* row handed to normalize_rows has total zero, and no entry of the
\* returned table or row is undefined.
AllFinite(data) ==
  \A r \in 1..Len(data) : \A k \in 1..Len(data[r]) : IsFinite(data[r][k])
C24_CanonicalNonDegenerate ==
  Canonical =>
    /\ NonDegenerate
    /\ (IsStage(call) /\ ValidQuery) =>
         /\ ret.kind = "ok"
         /\ \A r \in 1..Len(Unnormalised(call)) :
              LET total == RowSum(Unnormalised(call)[r])
              IN IsFinite(total) /\ ~IsZero(total)
         /\ AllFinite(ret.df.data)
         /\ \A k \in 1..Len(ret.probs) : IsFinite(ret.probs[k])
C24_Witness ==
  /\ Canonical /\ NonDegenerate
  /\ call.op = "pragmatic_listener" /\ call.utt = "green" /\ ValidQuery
  /\ ret.kind = "ok"
  /\ AllFinite(ret.df.data)
  /\ FLess(Frac(9, 10), ret.probs[3])
  /\ TrueCount("green") = 1
=============================================================================
